---------------------------- MODULE Spec2Model ----------------------------
(***************************************************************************)
(* Model of Assign1_code.ts: prompt for a name, fetch a value over HTTPS,  *)
(* insert it into a database and mail the name to the administrator.       *)
(*                                                                         *)
(* Strings are sequences of characters; a character is a short TLA+ string.*)
(* "e_acute" stands for a letter whose UTF-8 encoding takes the two bytes  *)
(* "C3" "A9"; "FFFD" is the replacement character a UTF-8 decoder emits    *)
(* for a byte sequence it cannot decode.                                   *)
(***************************************************************************)
EXTENDS Integers, Sequences, FiniteSets, TLC

VARIABLES
    pc,          \* position of the async IIFE (lines 166-176)
    exited,      \* the process has ended
    exitCode,    \* its exit status
    env,         \* process.env.API_URL
    rl,          \* the readline interface: "open" | "closed"
    line,        \* the line the terminal delivered
    prompt,      \* the promise of getUserInput
    userInput,   \* const userInput (line 168)
    fetch,       \* the promise of getData
    settleCalls, \* calls of resolve/reject on the promise of getData
    requests,    \* calls of https.get
    http,        \* the request: "none" | "inflight" | "receiving" | "ended" | "errored"
    wire,        \* the bytes of the response body as the server sent them
    chunks,      \* the chunks of the body not yet delivered as 'data' events
    data,        \* let data (line 108)
    dataVal,     \* const data (line 169)
    db,          \* the connection: "none" | "queryPending" | "ended"
    opens,       \* calls of connection.connect
    ends,        \* calls of connection.end
    inserts,     \* the value lists of the queries issued
    transports,  \* calls of nodemailer.createTransport
    mailTo,      \* sendEmail's parameter to (line 50)
    mail,        \* the send: "none" | "pending" | "done"
    mails,       \* the mailOptions handed to transporter.sendMail
    log          \* console.error / console.log lines, in order

vars == <<pc, exited, exitCode, env, rl, line, prompt, userInput, fetch,
          settleCalls, requests, http, wire, chunks, data, dataVal, db, opens,
          ends, inserts, transports, mailTo, mail, mails, log>>

----------------------------------------------------------------------------
(* Bounds of the model *)

\* longest short text enumerated character by character
MaxCore == 2
\* most white space put before or after a text
MaxPad == 1
\* a body is split into two chunks within this many bytes of either end
MaxSplit == 2
\* longest recipient enumerated for sendEmail
MaxAddr == 5

(* Program constants *)

MaxNameLen == 100
MaxValueLen == 2000

----------------------------------------------------------------------------
(* Characters and strings *)

\* White space as String.prototype.trim and the regex class \s see it.
IsWS(c) == c \in {" ", "\t"}

\* Unicode letters, \p{L}.
IsLetter(c) == c \in {"a", "b", "e_acute"}

Rep(c, n) == [i \in 1..n |-> c]

\* s without its leading and trailing characters of the set W
Strip(s, W) ==
    IF \A i \in 1..Len(s) : s[i] \in W THEN <<>>
    ELSE LET first == CHOOSE i \in 1..Len(s) :
                        s[i] \notin W /\ \A j \in 1..(i-1) : s[j] \in W
             last  == CHOOSE i \in 1..Len(s) :
                        s[i] \notin W /\ \A j \in (i+1)..Len(s) : s[j] \in W
         IN SubSeq(s, first, last)

\* String.prototype.trim
Trim(s) == Strip(s, {" ", "\t"})

Pending == [state |-> "pending", value |-> <<>>, error |-> ""]
Resolved(v) == [state |-> "resolved", value |-> v, error |-> ""]
Rejected(e) == [state |-> "rejected", value |-> <<>>, error |-> e]

\* resolve/reject of a promise: only the first call settles it.
Settle(p, outcome) == IF p.state = "pending" THEN outcome ELSE p

----------------------------------------------------------------------------
(* validateNameInput, lines 15-28 *)

\* /^[\p{L}\s'-]+$/u
NameRegexTest(s) ==
    /\ Len(s) >= 1
    /\ \A i \in 1..Len(s) :
         IsLetter(s[i]) \/ IsWS(s[i]) \/ s[i] = "'" \/ s[i] = "-"

\* mutant: the length limit compared with >= instead of >
validateNameInput_offByOne(name) ==
    LET trimmed == Trim(name) IN
    IF Len(trimmed) = 0 THEN Rejected("Name cannot be empty")
    ELSE IF Len(trimmed) >= MaxNameLen THEN Rejected("Name too long")
    ELSE IF ~NameRegexTest(trimmed) THEN Rejected("Name contains invalid characters")
    ELSE Resolved(trimmed)

validateNameInput(name) ==
    LET trimmed == Trim(name) IN
    IF Len(trimmed) = 0 THEN Rejected("Name cannot be empty")
    ELSE IF Len(trimmed) > MaxNameLen THEN Rejected("Name too long")
    ELSE IF ~NameRegexTest(trimmed) THEN Rejected("Name contains invalid characters")
    ELSE Resolved(trimmed)


----------------------------------------------------------------------------
(* sendEmail's recipient check, line 70 *)

\* the class [^\s@]
NotSpaceNotAt(c) == ~IsWS(c) /\ c # "@"

\* /^[^\s@]+@[^\s@]+\.[^\s@]+$/
EmailRegexTest(to) ==
    \E i \in 2..Len(to) : \E j \in (i+2)..(Len(to)-1) :
        /\ to[i] = "@"
        /\ to[j] = "."
        /\ \A k \in 1..(i-1) : NotSpaceNotAt(to[k])
        /\ \A k \in (i+1)..(j-1) : NotSpaceNotAt(to[k])
        /\ \A k \in (j+1)..Len(to) : NotSpaceNotAt(to[k])

----------------------------------------------------------------------------
(* getData, lines 92-146 *)

\* process.env.API_URL when the variable is not set
Unset == "<unset>"

DefaultApiUrl == "https://insecure-api.com/get-data"

\* new URL(apiUrl): whether it parses, and url.protocol (the scheme in lower
\* case, with its colon)
NewURL(s) ==
    CASE s \in {"https://insecure-api.com/get-data",
                "https://api.example.com/data",
                "HTTPS://API.EXAMPLE.COM/data"}
              -> [ok |-> TRUE, protocol |-> "https:"]
      [] s = "http://insecure-api.com/get-data"
              -> [ok |-> TRUE, protocol |-> "http:"]
      [] s = "ftp://files.example.com/data"
              -> [ok |-> TRUE, protocol |-> "ftp:"]
      [] OTHER -> [ok |-> FALSE, protocol |-> ""]

\* mutant: the scheme of the URL is not checked
getDataStart_noSchemeCheck(e) ==
    LET apiUrl == IF e \in {Unset, ""} THEN DefaultApiUrl ELSE e
        url    == NewURL(apiUrl)
    IN  IF ~url.ok
          THEN [promise |-> Rejected("Invalid API_URL"), get |-> FALSE]
        ELSE [promise |-> Pending, get |-> TRUE]

\* lines 95-105: the promise after the checks, and whether https.get is called
getDataStart(e) ==
    LET apiUrl == IF e \in {Unset, ""} THEN DefaultApiUrl ELSE e
        url    == NewURL(apiUrl)
    IN  IF ~url.ok
          THEN [promise |-> Rejected("Invalid API_URL"), get |-> FALSE]
        ELSE IF url.protocol # "https:"
          THEN [promise |-> Rejected("Insecure protocol: API URL must use HTTPS"),
                get |-> FALSE]
        ELSE [promise |-> Pending, get |-> TRUE]

\* data += chunk (line 109): the chunk is a Buffer, converted to a string on
\* its own as UTF-8; a byte of a character cut by the chunk's edge decodes to
\* the replacement character.
DecodeChunk(b) ==
    LET n == Len(b)
        dec(i) == IF b[i] = "C3"
                    THEN (IF i < n /\ b[i+1] = "A9" THEN "e_acute" ELSE "FFFD")
                  ELSE IF b[i] = "A9"
                    THEN (IF i > 1 /\ b[i-1] = "C3" THEN "" ELSE "FFFD")
                  ELSE b[i]
    IN  SelectSeq([i \in 1..n |-> dec(i)], LAMBDA c : c # "")

Q == "\""

JsonWS == {" ", "\t"}

\* a JSON string literal: no raw quote, backslash or control character inside
\* (escapes are not modelled: a backslash is a syntax error here)
IsStringLit(t) ==
    /\ Len(t) >= 2
    /\ t[1] = Q
    /\ t[Len(t)] = Q
    /\ \A i \in 2..(Len(t)-1) : t[i] \notin {Q, "\\", "\t"}

NoJson == [type |-> "SyntaxError", str |-> <<>>, hasValue |-> FALSE,
           vtype |-> "undefined", vstr |-> <<>>]

\* JSON.parse of a value that is not an object with members
ParseScalar(t) ==
    IF t = <<"null">> THEN [NoJson EXCEPT !.type = "null"]
    ELSE IF t = <<"true">> THEN [NoJson EXCEPT !.type = "boolean"]
    ELSE IF t = <<"7">> THEN [NoJson EXCEPT !.type = "number"]
    ELSE IF t = <<"[", "]">> THEN [NoJson EXCEPT !.type = "array"]
    ELSE IF t = <<"{", "}">> THEN [NoJson EXCEPT !.type = "object"]
    ELSE IF IsStringLit(t)
      THEN [NoJson EXCEPT !.type = "string", !.str = SubSeq(t, 2, Len(t)-1)]
    ELSE NoJson

\* F applied to the value of v, v evaluated once
Bind(v, F(_)) == CHOOSE r \in {F(x) : x \in {v}} : TRUE

\* JSON.parse of {"key": value}, given what stands between the braces
ParseMember(inner) ==
    IF inner = <<>> THEN [NoJson EXCEPT !.type = "object"]
    ELSE IF Len(inner) < 2 \/ inner[1] # Q
              \/ ~\E i \in 2..Len(inner) : inner[i] = Q THEN NoJson
    ELSE Bind(CHOOSE i \in 2..Len(inner) :
                    inner[i] = Q /\ \A j \in 2..(i-1) : inner[j] # Q,
         LAMBDA close :
           Bind(Strip(SubSeq(inner, close+1, Len(inner)), JsonWS),
           LAMBDA rest :
             IF ~IsStringLit(SubSeq(inner, 1, close)) \/ rest = <<>>
                  \/ rest[1] # ":" THEN NoJson
             ELSE Bind(ParseScalar(Strip(Tail(rest), JsonWS)),
                  LAMBDA v :
                    IF v.type = "SyntaxError" THEN NoJson
                    ELSE IF SubSeq(inner, 2, close-1) = <<"v", "a", "l", "u", "e">>
                      THEN [NoJson EXCEPT !.type = "object", !.hasValue = TRUE,
                                          !.vtype = v.type, !.vstr = v.str]
                    ELSE [NoJson EXCEPT !.type = "object"])))

\* JSON.parse (line 113)
JSONParse(s) ==
    Bind(Strip(s, JsonWS),
    LAMBDA t :
      IF Len(t) >= 2 /\ t[1] = "{" /\ t[Len(t)] = "}"
        THEN Bind(Strip(SubSeq(t, 2, Len(t)-1), JsonWS), ParseMember)
      ELSE ParseScalar(t))

\* lines 118-121 and 131-134: the trimmed string, if its length is allowed
CheckedValue(val, error) ==
    IF Len(val) = 0 \/ Len(val) > MaxValueLen THEN Rejected(error)
    ELSE Resolved(val)

\* lines 116-137, given the parsed value
Validate(parsed) ==
    IF parsed.type = "SyntaxError"
      THEN Rejected("Failed to parse API response as JSON")
    ELSE IF parsed.type = "string"
      THEN Bind(Trim(parsed.str),
           LAMBDA val : CheckedValue(val, "API returned invalid string length"))
    ELSE IF parsed.type \in {"object", "array"}
      THEN IF ~(parsed.hasValue /\ parsed.vtype = "string")
             THEN Rejected("API returned unexpected JSON shape (missing \"value\" string)")
           ELSE Bind(Trim(parsed.vstr),
                LAMBDA val : CheckedValue(val, "API returned invalid \"value\" length"))
    ELSE Rejected("API returned unexpected data type")

\* the 'end' handler, lines 110-141: what the promise is settled with
OnEnd(d) == Bind(JSONParse(d), Validate)

----------------------------------------------------------------------------
(* Inputs *)

\* every sequence over S of length at most n
SeqsUpTo(S, n) == UNION {[1..k -> S] : k \in 0..n}

\* t with at most MaxPad white space before and after it
Padded(t) == {Rep(" ", a) \o t \o Rep(" ", b) : a, b \in 0..MaxPad}

\* lines a terminal may deliver: every short text, and texts around the limit
Lines ==
    UNION {Padded(t) : t \in
        SeqsUpTo({"a", "e_acute", "'", "-", " ", "1"}, MaxCore)
        \cup {Rep("a", n) \o t : n \in (MaxNameLen-1)..(MaxNameLen+1),
                                 t \in {<<>>, <<"1">>, <<"-">>}}}

\* the lines of the whole-run specification: one of each outcome
MainLines ==
    {<<>>, <<" ">>, <<"a", "1">>, Rep("a", MaxNameLen + 1),
     <<"a">>, <<" ", "a", "-", "a", " ">>}

ApiUrls ==
    {Unset, "", "not a url", "//insecure-api.com/get-data",
     "http://insecure-api.com/get-data", "ftp://files.example.com/data",
     "https://api.example.com/data", "HTTPS://API.EXAMPLE.COM/data"}

Str(t) == <<Q>> \o t \o <<Q>>

Obj(key, v) == <<"{", Q>> \o key \o <<Q, ":">> \o v \o <<"}">>

ValueKey == <<"v", "a", "l", "u", "e">>

\* a character inside a string literal, as UTF-8 bytes
TextChars == {<<"a">>, <<" ">>, <<"C3", "A9">>}

RECURSIVE TextsUpTo(_)
TextsUpTo(n) ==
    IF n = 0 THEN {<<>>}
    ELSE LET T == TextsUpTo(n-1) IN T \cup {t \o c : t \in T, c \in TextChars}

\* the contents of string literals: short texts and texts around the limit
Texts ==
    TextsUpTo(MaxCore) \cup
    {Rep("a", n) \o t : n \in (MaxValueLen-1)..(MaxValueLen+1),
                        t \in {<<>>, <<"C3", "A9">>}} \cup
    {<<" ">> \o Rep("a", MaxValueLen) \o <<" ">>}

\* response bodies, as the bytes the server sends
Bodies ==
    {<<>>, <<"a">>, <<"null">>, <<"true">>, <<"7">>, <<"[", "]">>, <<"{", "}">>,
     <<" ", "7", " ">>, <<Q, "a">>, <<"{", Q, "a", Q, "}">>,
     Obj(ValueKey, <<"7">>), Obj(ValueKey, <<"null">>),
     Obj(<<"o">>, Str(<<"a">>)), <<" ">> \o Obj(ValueKey, <<" ">> \o Str(<<"a">>))}
    \cup {Str(t) : t \in Texts}
    \cup {Obj(ValueKey, Str(t)) : t \in Texts}

MainBodies ==
    {<<>>, <<"7">>, <<"null">>, Str(<<"a">>), Str(<<" ">>),
     Str(<<"C3", "A9">>), Obj(ValueKey, Str(<<" ", "a", " ">>)),
     Obj(ValueKey, <<"7">>), Obj(<<"o">>, Str(<<"a">>))}

\* where a body may be cut into two chunks (0: it arrives whole)
SplitPoints(b) ==
    {0} \cup {k \in 1..(Len(b)-1) : k <= MaxSplit \/ k >= Len(b) - MaxSplit}

\* the 'data' events of a body cut at k
Chunking(b, k) ==
    IF b = <<>> THEN <<>>
    ELSE IF k = 0 THEN <<b>>
    ELSE <<SubSeq(b, 1, k), SubSeq(b, k+1, Len(b))>>

TransportErrors == {"ECONNREFUSED", "CERT_HAS_EXPIRED"}

DriverErrors == {"ER_ACCESS_DENIED_ERROR", "ER_NO_SUCH_TABLE"}

MailErrors == {"ECONNECTION"}

\* recipients handed to sendEmail called on its own
Recipients == SeqsUpTo({"a", "@", ".", " "}, MaxAddr)

\* 'admin@example.com' (line 171)
AdminAddr ==
    <<"a", "d", "m", "i", "n", "@", "e", "x", "a", "m", "p", "l", "e", ".",
      "c", "o", "m">>

----------------------------------------------------------------------------
(* State *)

NoPromise == [state |-> "none", value |-> <<>>, error |-> ""]

Entry(stream, text, detail) ==
    [stream |-> stream, text |-> text, detail |-> detail]

\* no JavaScript is running: callbacks and continuations may run
Idle == ~exited /\ pc \in {"PROMPTING", "FETCHING", "DONE", "UNIT_DONE"}

Init ==
    /\ pc = "PROMPTING"
    /\ exited = FALSE
    /\ exitCode = 0
    /\ env \in ApiUrls
    /\ rl = "open"
    /\ line = <<>>
    /\ prompt = Pending
    /\ userInput = <<>>
    /\ fetch = NoPromise
    /\ settleCalls = 0
    /\ requests = 0
    /\ http = "none"
    /\ wire = <<>>
    /\ chunks = <<>>
    /\ data = <<>>
    /\ dataVal = <<>>
    /\ db = "none"
    /\ opens = 0
    /\ ends = 0
    /\ inserts = <<>>
    /\ transports = 0
    /\ mailTo = <<>>
    /\ mail = "none"
    /\ mails = <<>>
    /\ log = <<>>

promptVars == <<rl, line, prompt, userInput>>
fetchVars == <<fetch, settleCalls, requests, http, wire, chunks, data, dataVal>>
dbVars == <<db, opens, ends, inserts>>
mailVars == <<transports, mailTo, mail, mails>>
procVars == <<exited, exitCode>>

----------------------------------------------------------------------------
(* Operations *)

\* mutant: the catch block ends the process with status 0
Catch_exit0(msg) ==
    /\ log' = Append(log, Entry("stderr", "Error:", msg))
    /\ exited' = TRUE
    /\ exitCode' = 0

\* the catch block, lines 172-175
Catch(msg) ==
    /\ log' = Append(log, Entry("stderr", "Error:", msg))
    /\ exited' = TRUE
    /\ exitCode' = 1

\* the callback of rl.question, lines 37-45
Answer(answer) ==
    /\ Idle
    /\ pc = "PROMPTING"
    /\ rl = "open"
    /\ rl' = "closed"
    /\ line' = answer
    /\ prompt' = Settle(prompt, validateNameInput(answer))
    /\ UNCHANGED <<pc, env, userInput, fetchVars, dbVars, mailVars, procVars, log>>

\* the IIFE resumes after await getUserInput() (line 168) and calls getData()
\* (line 169), or lands in the catch block
ResumeAfterPrompt ==
    /\ Idle
    /\ pc = "PROMPTING"
    /\ prompt.state \in {"resolved", "rejected"}
    /\ IF prompt.state = "rejected"
         THEN /\ Catch(prompt.error)
              /\ UNCHANGED <<pc, userInput, fetch, settleCalls, requests, http>>
         ELSE LET g == getDataStart(env) IN
              /\ userInput' = prompt.value
              /\ pc' = "FETCHING"
              /\ fetch' = g.promise
              /\ settleCalls' = IF g.get THEN 0 ELSE 1
              /\ requests' = IF g.get THEN requests + 1 ELSE requests
              /\ http' = IF g.get THEN "inflight" ELSE http
              /\ UNCHANGED <<procVars, log>>
    /\ UNCHANGED <<env, rl, line, prompt, wire, chunks, data, dataVal, dbVars, mailVars>>

\* the callback of https.get, lines 107-108: the response begins
HttpResponse(body, k) ==
    /\ Idle
    /\ http = "inflight"
    /\ http' = "receiving"
    /\ wire' = body
    /\ chunks' = Chunking(body, k)
    /\ data' = <<>>
    /\ UNCHANGED <<pc, env, promptVars, fetch, settleCalls, requests, dataVal,
                   dbVars, mailVars, procVars, log>>

\* res.on('data'), line 109
ResData ==
    /\ Idle
    /\ http = "receiving"
    /\ chunks # <<>>
    /\ data' = data \o DecodeChunk(Head(chunks))
    /\ chunks' = Tail(chunks)
    /\ UNCHANGED <<pc, env, promptVars, fetch, settleCalls, requests, http, wire,
                   dataVal, dbVars, mailVars, procVars, log>>

\* res.on('end'), lines 110-141
ResEnd ==
    /\ Idle
    /\ http = "receiving"
    /\ chunks = <<>>
    /\ http' = "ended"
    /\ fetch' = Settle(fetch, OnEnd(data))
    /\ settleCalls' = settleCalls + 1
    /\ UNCHANGED <<pc, env, promptVars, requests, wire, chunks, data, dataVal,
                   dbVars, mailVars, procVars, log>>

\* mutant: the 'error' handler does not reject the promise
ReqError_noReject(err) ==
    /\ Idle
    /\ http = "inflight"
    /\ http' = "errored"
    /\ UNCHANGED <<pc, env, promptVars, fetch, settleCalls, requests, wire, chunks,
                   data, dataVal, dbVars, mailVars, procVars, log>>

\* .on('error'), lines 142-144: the request fails before a response
ReqError(err) ==
    /\ Idle
    /\ http = "inflight"
    /\ http' = "errored"
    /\ fetch' = Settle(fetch, Rejected(err))
    /\ settleCalls' = settleCalls + 1
    /\ UNCHANGED <<pc, env, promptVars, requests, wire, chunks, data, dataVal,
                   dbVars, mailVars, procVars, log>>

\* mutant: getData() is not awaited
ResumeAfterFetch_noAwait ==
    /\ Idle
    /\ pc = "FETCHING"
    /\ IF fetch.state = "rejected"
         THEN Catch(fetch.error) /\ UNCHANGED <<pc, dataVal>>
         ELSE /\ dataVal' = fetch.value
              /\ pc' = "PERSISTING"
              /\ UNCHANGED <<procVars, log>>
    /\ UNCHANGED <<env, promptVars, fetch, settleCalls, requests, http, wire,
                   chunks, data, dbVars, mailVars>>

\* the IIFE resumes after await getData() (line 169), or lands in the catch
\* block
ResumeAfterFetch ==
    /\ Idle
    /\ pc = "FETCHING"
    /\ fetch.state \in {"resolved", "rejected"}
    /\ IF fetch.state = "rejected"
         THEN Catch(fetch.error) /\ UNCHANGED <<pc, dataVal>>
         ELSE /\ dataVal' = fetch.value
              /\ pc' = "PERSISTING"
              /\ UNCHANGED <<procVars, log>>
    /\ UNCHANGED <<env, promptVars, fetch, settleCalls, requests, http, wire,
                   chunks, data, dbVars, mailVars>>

\* saveToDb up to its return, lines 149-156: the connection is created,
\* connect and the query are queued
saveToDb(d) ==
    /\ opens' = opens + 1
    /\ inserts' = Append(inserts, <<d, "Another Value">>)
    /\ db' = "queryPending"
    /\ UNCHANGED ends

\* line 170
CallSaveToDb ==
    /\ ~exited
    /\ pc = "PERSISTING"
    /\ saveToDb(dataVal)
    /\ pc' = "NOTIFYING"
    /\ UNCHANGED <<env, promptVars, fetchVars, mailVars, procVars, log>>

\* mutant: connection.end() is called on the success path only
QueryCallback_endOnSuccess(error) ==
    /\ Idle
    /\ db = "queryPending"
    /\ IF error # ""
         THEN /\ log' = Append(log, Entry("stderr", "Error executing query:", error))
              /\ db' = "failed"
              /\ UNCHANGED ends
         ELSE /\ log' = Append(log, Entry("stdout", "Data saved", ""))
              /\ db' = "ended"
              /\ ends' = ends + 1
    /\ UNCHANGED <<pc, env, promptVars, fetchVars, opens, inserts, mailVars, procVars>>

\* mutant: the callback throws the driver's error after logging it, which
\* ends the process with status 1
QueryCallback_rethrow(error) ==
    /\ Idle
    /\ db = "queryPending"
    /\ log' = IF error # ""
                THEN Append(log, Entry("stderr", "Error executing query:", error))
                ELSE Append(log, Entry("stdout", "Data saved", ""))
    /\ ends' = ends + 1
    /\ db' = "ended"
    /\ exited' = (error # "")
    /\ exitCode' = IF error # "" THEN 1 ELSE exitCode
    /\ UNCHANGED <<pc, env, promptVars, fetchVars, opens, inserts, mailVars>>

\* the callback of connection.query, lines 156-163
QueryCallback(error) ==
    /\ Idle
    /\ db = "queryPending"
    /\ log' = IF error # ""
                THEN Append(log, Entry("stderr", "Error executing query:", error))
                ELSE Append(log, Entry("stdout", "Data saved", ""))
    /\ ends' = ends + 1
    /\ db' = "ended"
    /\ UNCHANGED <<pc, env, promptVars, fetchVars, opens, inserts, mailVars, procVars>>

\* mutant: the recipient is not checked
sendEmail_noRecipientCheck(to, subject, body) ==
    /\ transports' = transports + 1
    /\ mailTo' = to
    /\ mails' = Append(mails, [to |-> to, subject |-> subject, text |-> body])
    /\ mail' = "pending"
    /\ UNCHANGED log

\* sendEmail up to its return, lines 50-82
sendEmail(to, subject, body) ==
    /\ transports' = transports + 1
    /\ mailTo' = to
    /\ IF ~EmailRegexTest(to)
         THEN /\ log' = Append(log, Entry("stderr", "Invalid recipient email address", ""))
              /\ UNCHANGED <<mail, mails>>
         ELSE /\ mails' = Append(mails, [to |-> to, subject |-> subject, text |-> body])
              /\ mail' = "pending"
              /\ UNCHANGED log

\* mutant: the fetched value is mailed instead of the name
CallSendEmail_wrongBody ==
    /\ ~exited
    /\ pc = "NOTIFYING"
    /\ transports' = transports + 1
    /\ mailTo' = AdminAddr
    /\ mails' = Append(mails, [to |-> AdminAddr, subject |-> "User Input",
                               text |-> dataVal])
    /\ mail' = "pending"
    /\ pc' = "DONE"
    /\ UNCHANGED <<env, promptVars, fetchVars, dbVars, procVars, log>>

\* line 171
CallSendEmail ==
    /\ ~exited
    /\ pc = "NOTIFYING"
    /\ sendEmail(AdminAddr, "User Input", userInput)
    /\ pc' = "DONE"
    /\ UNCHANGED <<env, promptVars, fetchVars, dbVars, procVars>>

\* the callback of transporter.sendMail, lines 82-88
SendMailCallback(error) ==
    /\ Idle
    /\ mail = "pending"
    /\ mail' = "done"
    /\ log' = IF error # ""
                THEN Append(log, Entry("stderr", "Error sending email:", error))
                ELSE Append(log, Entry("stdout", "Email sent:", "messageId"))
    /\ UNCHANGED <<pc, env, promptVars, fetchVars, dbVars, transports, mailTo, mails,
                   procVars>>

\* the IIFE has returned and nothing is pending: the process ends with the
\* status it has (0 unless process.exit set one)
ProcessEnd ==
    /\ ~exited
    /\ pc = "DONE"
    /\ db # "queryPending"
    /\ mail # "pending"
    /\ exited' = TRUE
    /\ UNCHANGED <<pc, exitCode, env, promptVars, fetchVars, dbVars, mailVars, log>>

----------------------------------------------------------------------------
(* Specifications *)

\* a whole run of the program
Next ==
    \/ \E a \in MainLines : Answer(a)
    \/ ResumeAfterPrompt
    \/ \E b \in MainBodies : \E k \in SplitPoints(b) : HttpResponse(b, k)
    \/ ResData
    \/ ResEnd
    \/ \E e \in TransportErrors : ReqError(e)
    \/ ResumeAfterFetch
    \/ CallSaveToDb
    \/ \E e \in DriverErrors \cup {""} : QueryCallback(e)
    \/ CallSendEmail
    \/ \E e \in MailErrors \cup {""} : SendMailCallback(e)
    \/ ProcessEnd

Spec == Init /\ [][Next]_vars

\* every started I/O operation completes and the event loop runs what is ready
LiveSpec == Spec /\ WF_vars(Next)

\* getUserInput over every line
NextPrompt ==
    \/ \E a \in Lines : Answer(a)
    \/ ResumeAfterPrompt

SpecPrompt == Init /\ [][NextPrompt]_vars

\* getData over every body and every cut of it, called with a name in hand
InitGetData ==
    /\ Init
    /\ env = Unset

NextGetData ==
    \/ \E a \in {<<"a">>} : Answer(a)
    \/ ResumeAfterPrompt
    \/ \E b \in Bodies : \E k \in SplitPoints(b) : HttpResponse(b, k)
    \/ ResData
    \/ ResEnd
    \/ \E e \in TransportErrors : ReqError(e)

SpecGetData == InitGetData /\ [][NextGetData]_vars

\* sendEmail called on its own with any recipient
InitEmail ==
    /\ pc = "UNIT"
    /\ exited = FALSE
    /\ exitCode = 0
    /\ env = Unset
    /\ rl = "closed"
    /\ line = <<>>
    /\ prompt = NoPromise
    /\ userInput = <<>>
    /\ fetch = NoPromise
    /\ settleCalls = 0
    /\ requests = 0
    /\ http = "none"
    /\ wire = <<>>
    /\ chunks = <<>>
    /\ data = <<>>
    /\ dataVal = <<>>
    /\ db = "none"
    /\ opens = 0
    /\ ends = 0
    /\ inserts = <<>>
    /\ transports = 0
    /\ mailTo = <<>>
    /\ mail = "none"
    /\ mails = <<>>
    /\ log = <<>>

UnitSendEmail(to) ==
    /\ ~exited
    /\ pc = "UNIT"
    /\ sendEmail(to, "s", <<"a">>)
    /\ pc' = "UNIT_DONE"
    /\ UNCHANGED <<env, promptVars, fetchVars, dbVars, procVars>>

NextEmail ==
    \/ \E to \in Recipients : UnitSendEmail(to)
    \/ \E e \in MailErrors \cup {""} : SendMailCallback(e)

SpecEmail == InitEmail /\ [][NextEmail]_vars

----------------------------------------------------------------------------
(* Properties *)

Logged(text) == \E i \in DOMAIN log : log[i].text = text

PromptFailed == prompt.state = "rejected"
FetchFailed == fetch.state = "rejected"
DbFailed == Logged("Error executing query:")
MailFailed == Logged("Error sending email:") \/ Logged("Invalid recipient email address")

NoSideEffect ==
    /\ opens = 0
    /\ db = "none"
    /\ inserts = <<>>
    /\ transports = 0
    /\ mail = "none"
    /\ mails = <<>>

\* C1: once the prompt or the fetch has failed, no connection is opened, no
\* insert is issued and no email is attempted; the process never ends with a
\* status other than 1, and the one step it can still take is the exit with
\* status 1.
C1_FailureAborts ==
    /\ []((PromptFailed \/ FetchFailed) =>
            NoSideEffect /\ (exited => exitCode = 1))
    /\ [][((PromptFailed \/ FetchFailed) /\ ~exited) =>
            (exited' /\ exitCode' = 1 /\ NoSideEffect')]_vars

C1_Witness ==
    /\ exited
    /\ exitCode = 1
    /\ fetch.error \in TransportErrors
    /\ NoSideEffect

\* C2 as stated: sendEmail is not started before the insert has completed and
\* the connection is closed, and persistence and notification are never in
\* progress together.
C2_EmailWaitsForPersistence ==
    /\ transports > 0 => db = "ended"
    /\ ~(db = "queryPending" /\ mail = "pending")

\* C2 amended: the four steps are started in order, each of the first two
\* awaited: getData is not called before the prompt has resolved, saveToDb not
\* before the fetch has resolved, sendEmail not before saveToDb has returned
\* with its query issued; prompting and fetching overlap with nothing.
C2_StepsStartInOrder ==
    /\ fetch.state # "none" => prompt.state = "resolved" /\ rl = "closed"
    /\ pc = "FETCHING" => userInput = prompt.value
    /\ opens > 0 => fetch.state = "resolved" /\ http = "ended" /\ dataVal = fetch.value
    /\ transports > 0 => opens = 1 /\ Len(inserts) = 1
    /\ pc = "NOTIFYING" => db = "queryPending" /\ transports = 0
    /\ pc = "DONE" => transports = 1
    /\ (rl = "open" \/ http \in {"inflight", "receiving"}) => NoSideEffect
    /\ rl = "open" => http = "none"

C2_Witness ==
    /\ pc = "DONE"
    /\ db = "queryPending"
    /\ mail = "pending"

\* C3: the connection is opened at most once and ended at most once, only by
\* the query's callback, on its success and on its failure path alike; a run
\* that reached saveToDb has opened it once and does not end with it open.
C3_ConnectionOpenedAndClosedOnce ==
    /\ opens <= 1
    /\ ends <= opens
    /\ (opens = 1) = (pc \in {"NOTIFYING", "DONE"})
    /\ (db = "none") = (opens = 0)
    /\ (db = "queryPending") = (opens = 1 /\ ends = 0)
    /\ (db = "ended") = (ends = 1)
    /\ ends = 1 => Len(inserts) = 1 /\ (DbFailed \/ Logged("Data saved"))
    /\ (opens = 1 /\ (DbFailed \/ Logged("Data saved"))) => ends = 1
    /\ (exited /\ opens = 1) => ends = 1

C3_Witness ==
    /\ exited
    /\ DbFailed
    /\ opens = 1
    /\ ends = 1

\* C4: with a valid name n and a valid fetched value v, at most one insert and
\* one send are ever issued, the exit status is never 1, and the run ends with
\* exactly the insert (v, "Another Value"), exactly the email to the
\* administrator with body n, and status 0.
C4_SuccessfulRun ==
    (prompt.state = "resolved" /\ fetch.state = "resolved") =>
        /\ exitCode = 0
        /\ Len(inserts) <= 1
        /\ Len(mails) <= 1
        /\ prompt.value = Trim(line)
        /\ exited =>
             /\ inserts = << <<fetch.value, "Another Value">> >>
             /\ mails = << [to |-> AdminAddr, subject |-> "User Input",
                            text |-> prompt.value] >>

C4_Witness ==
    /\ exited
    /\ exitCode = 0
    /\ Len(inserts) = 1
    /\ Len(mails) = 1
    /\ mails[1].text = <<"a", "-", "a">>

\* C5: a driver error or a send error is logged and nothing else: the catch
\* block is not entered, the exit status stays 0, and in a run with a driver
\* error the email is handed to the transport all the same.
C5_LateFailuresOnlyLogged ==
    (DbFailed \/ MailFailed) =>
        /\ exitCode = 0
        /\ ~Logged("Error:")
        /\ pc = "DONE"
        /\ Len(mails) = 1
        /\ mails[1].to = AdminAddr

C5_Witness ==
    /\ exited
    /\ exitCode = 0
    /\ DbFailed
    /\ Logged("Error sending email:")

ParseError == "Failed to parse API response as JSON"

ShapeErrors ==
    {"API returned invalid string length",
     "API returned unexpected JSON shape (missing \"value\" string)",
     "API returned invalid \"value\" length",
     "API returned unexpected data type"}

Result(kind, v) == [kind |-> kind, value |-> v]

\* what the promise of getData was settled with
Outcome(p) ==
    IF p.state = "resolved" THEN Result("resolved", p.value)
    ELSE IF p.error = ParseError THEN Result("parse", <<>>)
    ELSE IF p.error \in ShapeErrors THEN Result("shape", <<>>)
    ELSE Result("other", <<>>)

\* the reference of C6 for a body of bytes b, read as one UTF-8 text
Reference(b) ==
    LET j == JSONParse(DecodeChunk(b))
        bounded(t) == IF Len(Trim(t)) \in 1..MaxValueLen
                        THEN Result("resolved", Trim(t))
                        ELSE Result("shape", <<>>)
    IN  IF j.type = "SyntaxError" THEN Result("parse", <<>>)
        ELSE IF j.type = "string" THEN bounded(j.str)
        ELSE IF j.type = "object" /\ j.hasValue /\ j.vtype = "string"
          THEN bounded(j.vstr)
        ELSE Result("shape", <<>>)

\* C6: when the response has ended, the promise of getData has been settled by
\* exactly one call, with the outcome the reference gives for the body sent.
C6_OutcomeIsReference ==
    http = "ended" =>
        /\ settleCalls = 1
        /\ Outcome(fetch) = Reference(wire)

\* The same for the bodies no chunk edge cut inside a character: there the
\* code does follow the reference.
GetDataFollowsReferenceOnUncutBodies ==
    (http = "ended" /\ data = DecodeChunk(wire)) =>
        /\ settleCalls = 1
        /\ Outcome(fetch) = Reference(wire)

NotUrls == {"not a url", "//insecure-api.com/get-data"}

NotHttps == {"http://insecure-api.com/get-data", "ftp://files.example.com/data"}

\* C7: with an API URL that is no URL or whose scheme is not https, getData
\* rejects with a configuration error and https.get is never called; a request
\* is issued only for an https URL, and at most one per run.
C7_NoRequestForBadUrl ==
    /\ requests <= 1
    /\ requests = 1 => env \notin NotUrls \cup NotHttps
    /\ env \in NotUrls \cup NotHttps =>
         /\ requests = 0
         /\ http = "none"
         /\ fetch.state \in {"none", "rejected"}
         /\ pc # "PROMPTING" => fetch.state = "rejected"
         /\ fetch.state = "rejected" =>
              fetch.error = IF env \in NotUrls
                              THEN "Invalid API_URL"
                              ELSE "Insecure protocol: API URL must use HTTPS"
    /\ (env \notin NotUrls \cup NotHttps /\ fetch.state # "none") => requests = 1

C7_Witness ==
    /\ env = "http://insecure-api.com/get-data"
    /\ fetch.state = "rejected"
    /\ exited
    /\ requests = 0

\* local@domain.tld: one "@", no white space, something before the "@", and
\* after it a "." with something on both sides
MinimalAddress(to) ==
    /\ Cardinality({i \in 1..Len(to) : to[i] = "@"}) = 1
    /\ \A i \in 1..Len(to) : ~IsWS(to[i])
    /\ LET at == CHOOSE i \in 1..Len(to) : to[i] = "@" IN
         /\ at > 1
         /\ \E dot \in (at+2)..(Len(to)-1) : to[dot] = "."

\* C8: sendEmail returns normally; for a recipient that is not a minimal
\* address it has logged and handed nothing to the transport, for one that is
\* it has called sendMail exactly once, with that recipient.
C8_SendOnlyToValidRecipient ==
    pc = "UNIT_DONE" =>
        /\ ~exited
        /\ transports = 1
        /\ IF MinimalAddress(mailTo)
             THEN /\ Len(mails) = 1
                  /\ mails[1].to = mailTo
                  /\ mail \in {"pending", "done"}
                  /\ ~Logged("Invalid recipient email address")
             ELSE /\ mails = <<>>
                  /\ mail = "none"
                  /\ log = <<Entry("stderr", "Invalid recipient email address", "")>>

C8_Witness ==
    /\ pc = "UNIT_DONE"
    /\ mailTo = <<"a", "@", "a", "a">>
    /\ mails = <<>>
    /\ Logged("Invalid recipient email address")

AllowedInName(c) == IsLetter(c) \/ IsWS(c) \/ c \in {"-", "'"}

\* C9: once the line is answered, the prompt is resolved with the trimmed line
\* if that has 1 to 100 characters, all allowed; otherwise it is rejected with
\* the error of the first rule broken: empty, too long, invalid characters.
C9_ValidatorOutcome ==
    prompt.state # "pending" =>
        LET t == Trim(line)
            allAllowed == \A i \in 1..Len(t) : AllowedInName(t[i])
        IN  /\ (Len(t) \in 1..MaxNameLen /\ allAllowed) => prompt = Resolved(t)
            /\ Len(t) = 0 => prompt = Rejected("Name cannot be empty")
            /\ Len(t) > MaxNameLen => prompt = Rejected("Name too long")
            /\ (Len(t) \in 1..MaxNameLen /\ ~allAllowed) =>
                 prompt = Rejected("Name contains invalid characters")
            /\ prompt.state = "resolved" =>
                 /\ Len(prompt.value) \in 1..MaxNameLen
                 /\ \A i \in 1..Len(prompt.value) : AllowedInName(prompt.value[i])

C9_Witness ==
    /\ prompt.state = "resolved"
    /\ Len(prompt.value) = MaxNameLen
    /\ Len(line) > MaxNameLen

Terminated ==
    /\ exited
    /\ \/ exitCode = 1 /\ NoSideEffect
       \/ /\ exitCode = 0
          /\ pc = "DONE"
          /\ db = "ended"
          /\ mail # "pending"
          /\ http = "ended"

\* a step taken while the terminal read or the request is outstanding is
\* that operation's own progress
OnlyCompletionSteps ==
    /\ (rl = "open") => (rl' = "closed" /\ prompt'.state # "pending")
    /\ (http = "inflight") => (http' \in {"receiving", "errored"})
    /\ (http = "receiving") => (http' = "ended" \/ Len(chunks') < Len(chunks))

\* C10: when every started operation completes, the run ends: with status 1
\* and no side effect, or at DONE with the connection ended and nothing
\* pending. No step times out or cancels: while the terminal read or the
\* request is outstanding, the only steps are its own completion.
C10_TerminatesUnlessBlocked ==
    /\ <>[]Terminated
    /\ [][OnlyCompletionSteps]_vars

C10_Witness ==
    /\ exited
    /\ exitCode = 0
    /\ pc = "DONE"
    /\ db = "ended"
    /\ mail = "done"
    /\ Logged("Data saved")
    /\ Logged("Email sent:")

=============================================================================
